---- MODULE Spec2Model ----
(***************************************************************************)
(* The reel gallery of my-portfolio: the per-card media playback           *)
(* controller of the three gallery components and the pure helpers they    *)
(* call.                                                                   *)
(*                                                                         *)
(*   "Card"               src/components/motion-reel-section.tsx :23       *)
(*   "MotionReelCardDual" src/unnamed/part_000 :24  (desktop + mobile)     *)
(*   "MotionReelCard"     src/unnamed/part_000 :250 (single video)         *)
(*                                                                         *)
(* JavaScript numbers are modelled as pairs <<n, d>>: the rational n/d     *)
(* in lowest terms when d > 0, and the three non-finite doubles as         *)
(* <<0, 0>> (NaN), <<1, 0>> (Infinity) and <<-1, 0>> (-Infinity).          *)
(***************************************************************************)
EXTENDS Integers, Sequences, FiniteSets, TLC

(* ------------------------------ bounds --------------------------------- *)

\* A scrub position is one of 0, 1/FracSteps, .., 1 (the range input's step).
FracSteps == 2
\* The longest reel, in seconds.
MaxDuration == 2
\* Play/pause events a media element may have queued and not yet delivered.
MaxPending == 2
\* The largest number of half seconds formatTime is applied to.
MaxFormatTime == 264
\* The steps explored of a gallery of several cards.
MaxGallerySteps == 3
\* The cards of a gallery of several cards.
MaxReels == 2
\* The longest list of reels the section is rendered for.
MaxItems == 7
\* The longest list of reels with ids the section is rendered for: the card
\* indexes reach two digits.
MaxKeyItems == 11

(* ------------------------- JavaScript numbers -------------------------- *)

NaN == <<0, 0>>
Infinity == <<1, 0>>

Abs(n) == IF n < 0 THEN -n ELSE n

Sign(n) == IF n < 0 THEN -1 ELSE IF n = 0 THEN 0 ELSE 1

RECURSIVE GCD(_, _)
GCD(a, b) == IF b = 0 THEN a ELSE GCD(b, a % b)

\* n/d as a number: lowest terms, positive denominator, non-finite when d = 0.
Num(n, d) ==
    IF d = 0 THEN <<Sign(n), 0>>
    ELSE LET g == GCD(Abs(n), Abs(d))
             s == IF d < 0 THEN -1 ELSE 1
         IN  <<s * (n \div g), s * (d \div g)>>

Int2Num(i) == <<i, 1>>

isFinite(x) == x[2] # 0

isNaN(x) == x = NaN

\* x * y of IEEE doubles (0 * Infinity and NaN * y are NaN).
Mul(x, y) == Num(x[1] * y[1], x[2] * y[2])

\* x / y of IEEE doubles (0 / 0 is NaN, 1 / 0 is Infinity, 1 / Infinity is 0).
Div(x, y) ==
    IF isNaN(x) \/ isNaN(y) THEN NaN
    ELSE Num(x[1] * y[2], x[2] * y[1])

\* x + y, of finite numbers.
Add(x, y) == Num(x[1] * y[2] + y[1] * x[2], x[2] * y[2])

\* x < y; every comparison with NaN is false.
Less(x, y) ==
    IF isNaN(x) \/ isNaN(y) THEN FALSE
    ELSE IF isFinite(x) /\ isFinite(y) THEN x[1] * y[2] < y[1] * x[2]
    ELSE IF isFinite(x) THEN y[1] > 0
    ELSE IF isFinite(y) THEN x[1] < 0
    ELSE x[1] < y[1]

LessEq(x, y) == Less(x, y) \/ (~isNaN(x) /\ x = y)

\* Math.min and Math.max: NaN when either argument is NaN.
MathMin(x, y) == IF isNaN(x) \/ isNaN(y) THEN NaN ELSE IF Less(y, x) THEN y ELSE x

MathMax(x, y) == IF isNaN(x) \/ isNaN(y) THEN NaN ELSE IF Less(x, y) THEN y ELSE x

\* Math.floor: the non-finite numbers are their own floor.
MathFloor(x) ==
    IF ~isFinite(x) THEN x
    ELSE IF x[1] >= 0 THEN Int2Num(x[1] \div x[2])
    ELSE Int2Num(-((-x[1] + x[2] - 1) \div x[2]))

\* x % y of JavaScript for y > 0 finite: the sign of x, NaN for a non-finite x.
Rem(x, y) ==
    IF ~isFinite(x) \/ isNaN(y) \/ y[1] = 0 THEN NaN
    ELSE IF ~isFinite(y) THEN x
    ELSE LET q == Div(x, y)
             t == IF q[1] >= 0 THEN MathFloor(q)
                  ELSE Int2Num(-((-q[1]) \div q[2]))
         IN  Add(x, Mul(Int2Num(-1), Mul(t, y)))

\* v || w: v unless v is falsy (0 or NaN).
OrElse(v, w) == IF v[1] = 0 THEN w ELSE v

(* --------------------------- number to string -------------------------- *)

Digit == <<"0", "1", "2", "3", "4", "5", "6", "7", "8", "9">>

RECURSIVE NatToString(_)
NatToString(n) ==
    IF n < 10 THEN Digit[n + 1]
    ELSE NatToString(n \div 10) \o Digit[(n % 10) + 1]

\* String(x) of a number that is an integer or not finite, as a template
\* literal `${x}` writes it.
NumToString(x) ==
    IF isNaN(x) THEN "NaN"
    ELSE IF ~isFinite(x) THEN (IF x[1] < 0 THEN "-Infinity" ELSE "Infinity")
    ELSE IF x[1] < 0 THEN "-" \o NatToString(-x[1])
    ELSE NatToString(x[1])

(* ------------------------------ formatTime ----------------------------- *)

\* formatTime without the zero that pads the seconds.
formatTimeNoPad(time) ==
    LET minutes == MathFloor(Div(time, Int2Num(60)))
        seconds == MathFloor(Rem(time, Int2Num(60)))
    IN  NumToString(minutes) \o ":" \o NumToString(seconds)

\* formatTime of both gallery components of part_000: `${minutes}:${pad}${seconds}`.
formatTime(time) ==
    LET minutes == MathFloor(Div(time, Int2Num(60)))
        seconds == MathFloor(Rem(time, Int2Num(60)))
    IN  NumToString(minutes) \o ":"
            \o (IF Less(seconds, Int2Num(10)) THEN "0" ELSE "")
            \o NumToString(seconds)

(* ------------------------------- the state ----------------------------- *)

VARIABLES
    variant,    \* which gallery component renders the section
    data,       \* the prop of MotionReelSection: null, one reel or a list
    mounted,    \* mounted[c]: card c is mounted
    listeners,  \* listeners[c]: the events of its video the card listens to
    ui,         \* ui[c]: the useState values of card c
    video,      \* video[c]: the element of videoRef / desktopVideoRef
    mobile,     \* mobile[c]: the element of mobileVideoRef
    logged,     \* logged[c]: console.error was called with a play rejection
    uncaught,   \* uncaught[c]: the errors that escaped the card's handlers
    last,       \* the step taken last: the operation, its card, its input
    budget,     \* the steps a gallery of several cards may still take
    fmtIn,      \* the time handed to formatTime by the time text
    fmtOut,     \* the text it rendered ("" before the first render)
    rendered    \* what MotionReelSection returned

cardVars == <<variant, data, mounted, listeners, ui, video, mobile, logged, uncaught, last>>

fmtVars == <<fmtIn, fmtOut>>

vars == <<cardVars, budget, fmtVars, rendered>>

Variants == {"Card", "MotionReelCardDual", "MotionReelCard"}

\* The two components of part_000 keep duration, currentTime, isLoading and hasError.
IsPart000 == variant \in {"MotionReelCardDual", "MotionReelCard"}

(* -------------------------------- the reels ---------------------------- *)

\* The video files the reels point at, and the length of each as the browser
\* reports it once the metadata is read.
Urls == {"empty.mp4", "clip.mp4"}

MediaDuration(url) == IF url = "empty.mp4" THEN Int2Num(0) ELSE Int2Num(MaxDuration)

Reels == [title : {"reel"}, reel : Urls]

Null == [kind |-> "null"]

\* A normalization that takes lists only.
NormalizeListsOnly(d) == IF d.kind = "array" THEN d.value ELSE <<>>

\* const videos = Array.isArray(data) ? data : data ? [data] : [];
Normalize(d) ==
    IF d.kind = "array" THEN d.value
    ELSE IF d.kind = "object" THEN <<d.value>>
    ELSE <<>>

videos == Normalize(data)

Cards == 1 .. Len(videos)

(* ---------------------------- the section render ----------------------- *)

\* The sizes of the rows: three portrait cards, then two landscape cards.
Pattern == <<3, 2>>

\* The rows of items from row number i on (i counts from 0): row i takes
\* pattern[i % pattern.length] items, the last row what is left.
RECURSIVE chunkFrom(_, _, _)
chunkFrom(items, i, pattern) ==
    IF items = <<>> THEN <<>>
    ELSE LET size == pattern[(i % Len(pattern)) + 1]
             n == IF size < Len(items) THEN size ELSE Len(items)
         IN  <<SubSeq(items, 1, n)>>
                 \o chunkFrom(SubSeq(items, n + 1, Len(items)), i + 1, pattern)

\* Rows of one size only.
chunkUniform(items) == chunkFrom(items, 0, <<Pattern[1]>>)

\* chunkByPattern of "@/lib/chunk", as the section calls it: one argument.
chunkByPattern(items) == chunkFrom(items, 0, Pattern)

\* rows.map(row => row.map(reel => <Card/>)): the cards in document order.
RECURSIVE Flatten(_)
Flatten(rows) == IF rows = <<>> THEN <<>> ELSE Head(rows) \o Flatten(Tail(rows))

\* reel.id || reel.title: the id of a reel that has one (and not the empty
\* string), its title otherwise.
KeyName(reel) ==
    IF "id" \in DOMAIN reel /\ reel.id # "" THEN reel.id ELSE reel.title

\* key={(reel.id || reel.title) + index}, a string concatenation; the
\* single-video component has key={index}.
CardKey(v, reel, index) ==
    IF v = "MotionReelCard" THEN NatToString(index)
    ELSE KeyName(reel) \o NatToString(index)

\* The keys of the cards of one grid; map counts the index from 0 in each grid.
RowKeys(v, row) == [i \in 1 .. Len(row) |-> CardKey(v, row[i], i - 1)]

\* The keys of all cards of the section, in document order.
SectionKeys(v, rows) == Flatten([r \in 1 .. Len(rows) |-> RowKeys(v, rows[r])])

NotRendered == [kind |-> "none", rows |-> <<>>, cards |-> <<>>, keys |-> <<>>]

\* What MotionReelSection returns for the prop d: the <p> "No videos
\* available" ("message") or the <section> with its heading and its grids of
\* cards ("section"). rows are the grids, cards the reels of the cards, keys
\* the React keys of the cards.
RenderSection(v, d) ==
    IF v = "Card"
    THEN [kind |-> "section", rows |-> chunkByPattern(Normalize(d)),
          cards |-> Flatten(chunkByPattern(Normalize(d))),
          keys |-> SectionKeys(v, chunkByPattern(Normalize(d)))]
    ELSE IF Len(Normalize(d)) = 0
    THEN [kind |-> "message", rows |-> <<>>, cards |-> <<>>, keys |-> <<>>]
    ELSE [kind |-> "section", rows |-> <<Normalize(d)>>, cards |-> Normalize(d),
          keys |-> SectionKeys(v, <<Normalize(d)>>)]

(* ----------------------------- media elements -------------------------- *)

\* A <video> as created by the render: paused, at 0, no metadata (duration NaN).
NewVideo(isMuted, isRendered) ==
    [paused |-> TRUE, muted |-> isMuted, currentTime |-> Int2Num(0),
     duration |-> NaN, error |-> FALSE, attached |-> isRendered, pending |-> <<>>]

\* video.play() that the browser allows: paused turns false at once, the play
\* event is queued.
play(el) == [el EXCEPT !.paused = FALSE, !.pending = Append(@, "play")]

\* video.pause(): paused turns true at once, the pause event is queued.
pause(el) == [el EXCEPT !.paused = TRUE, !.pending = Append(@, "pause")]

\* The element leaves the document (its ref becomes null): the browser pauses it.
Detach(el) ==
    [el EXCEPT !.attached = FALSE, !.paused = TRUE,
               !.pending = IF el.paused THEN @ ELSE Append(@, "pause")]

\* The currentTime setter with a finite value: the seek is clamped to the media.
SetCurrentTime(el, t) ==
    [el EXCEPT !.currentTime = MathMax(Int2Num(0), MathMin(el.duration, t))]

\* `desktopVideoRef.current || mobileVideoRef.current`, or videoRef.current: the
\* element a handler of card c reads and commands, "null" when there is none.
Current(c) ==
    IF video[c].attached THEN "video"
    ELSE IF variant = "MotionReelCardDual" /\ mobile[c].attached THEN "mobile"
    ELSE "null"

Element(c, which) == IF which = "mobile" THEN mobile[c] ELSE video[c]

\* The element `which` of card c becomes el. Nothing listens to the play and
\* pause events of the mobile video, so they are not kept.
SetElement(c, which, el) ==
    /\ video' = IF which = "video" THEN [video EXCEPT ![c] = el] ELSE video
    /\ mobile' = IF which = "mobile"
                 THEN [mobile EXCEPT ![c] = [el EXCEPT !.pending = <<>>]]
                 ELSE mobile

(* ------------------------------- the cards ----------------------------- *)

\* The useState initial values. Card keeps playing, muted and progress only;
\* the fields it does not have stay at these values.
InitialUi(v) ==
    [isPlaying |-> FALSE, isMuted |-> (v = "Card"), progress |-> Int2Num(0),
     currentTime |-> Int2Num(0), duration |-> Int2Num(0),
     isLoading |-> (v # "Card"), hasError |-> FALSE]

\* The listeners the mount effect adds to the video.
MountListeners(v) ==
    IF v = "Card" THEN {"play", "pause", "timeupdate"}
    ELSE {"play", "pause", "timeupdate", "loadedmetadata", "error"}

\* What a toggleMute found: the muted flag of the element it acted on and the
\* card's isMuted. Steps that are no toggleMute of a live element record none.
NoSnapshot == [taken |-> FALSE, muted |-> FALSE, isMuted |-> FALSE]

\* The section after its first render and the mount effects of its cards.
Mounted(v, d) ==
    /\ variant = v
    /\ data = d
    /\ mounted = [c \in 1 .. Len(Normalize(d)) |-> TRUE]
    /\ listeners = [c \in 1 .. Len(Normalize(d)) |-> MountListeners(v)]
    /\ ui = [c \in 1 .. Len(Normalize(d)) |-> InitialUi(v)]
    /\ video = [c \in 1 .. Len(Normalize(d)) |-> NewVideo(v = "Card", TRUE)]
    /\ mobile = [c \in 1 .. Len(Normalize(d)) |-> NewVideo(FALSE, v = "MotionReelCardDual")]
    /\ logged = [c \in 1 .. Len(Normalize(d)) |-> FALSE]
    /\ uncaught = [c \in 1 .. Len(Normalize(d)) |-> {}]
    /\ last = [op |-> "mount", card |-> 0, arg |-> NaN, assigned |-> NaN,
               before |-> NoSnapshot]

\* A gallery of several cards is followed for MaxGallerySteps steps only.
Step == IF Len(videos) > 1 THEN budget > 0 /\ budget' = budget - 1 ELSE UNCHANGED budget

\* What every step of a card does besides its own work: it records itself.
\* A seek also records the value it handed to the currentTime setter (NaN when
\* it handed it none).
DidSeek(c, arg, assigned) ==
    /\ last' = [op |-> "seek", card |-> c, arg |-> arg, assigned |-> assigned,
                before |-> NoSnapshot]
    /\ Step
    /\ UNCHANGED <<fmtVars, rendered>>

DidToggleMute(c, before) ==
    /\ last' = [op |-> "toggleMute", card |-> c, arg |-> NaN, assigned |-> NaN,
                before |-> before]
    /\ Step
    /\ UNCHANGED <<fmtVars, rendered>>

Did(op, c, arg) ==
    /\ last' = [op |-> op, card |-> c, arg |-> arg, assigned |-> NaN,
                before |-> NoSnapshot]
    /\ Step
    /\ UNCHANGED <<fmtVars, rendered>>

(* --------------------------- the state setters ------------------------- *)

\* State lifted out of the card: every card of the section shares it.
SetUiShared(c, u) == ui' = [k \in DOMAIN ui |-> u]

\* The useState setters of card c: the state lives in the card's own instance.
SetUi(c, u) == ui' = [ui EXCEPT ![c] = u]

\* A play() promise of card c is rejected: part_000 hands it to console.error
\* (`.catch(console.error)`), Card has no catch and the rejection goes unhandled.
playRejected(c) ==
    IF IsPart000
    THEN /\ logged' = [logged EXCEPT ![c] = TRUE]
         /\ UNCHANGED uncaught
    ELSE /\ uncaught' = [uncaught EXCEPT ![c] = @ \cup {"unhandledrejection"}]
         /\ UNCHANGED logged

\* A handler of card c throws: the error leaves the handler.
Throw(c, error) == uncaught' = [uncaught EXCEPT ![c] = @ \cup {error}]

(* --------------------------- the event handlers ------------------------ *)

handlePlay(u) == [u EXCEPT !.isPlaying = TRUE]

handlePause(u) == [u EXCEPT !.isPlaying = FALSE]

\* A loadedmetadata handler that also ends the loading state.
handleLoadedMetadataReady(u, el) == [u EXCEPT !.duration = el.duration, !.isLoading = FALSE]

\* setDuration(video.duration), video the element the effect captured.
handleLoadedMetadata(u, el) == [u EXCEPT !.duration = el.duration]

handleError(u) == [u EXCEPT !.hasError = TRUE]

\* The percentage without the `|| 1` that guards the division.
progressPercentUnguarded(el) ==
    Mul(Div(el.currentTime, el.duration), Int2Num(100))

\* (video.currentTime / (video.duration || 1)) * 100
progressPercent(el) ==
    Mul(Div(el.currentTime, OrElse(el.duration, Int2Num(1))), Int2Num(100))

\* current / duration with duration = video.duration || 1
progressFraction(el) == Div(el.currentTime, OrElse(el.duration, Int2Num(1)))

\* A timeupdate handler that also copies the playing state from the element.
handleTimeUpdateSync(c) ==
    LET which == Current(c)
        el == Element(c, which)
    IN  IF which = "null" THEN ui[c]
        ELSE IF IsPart000
        THEN [ui[c] EXCEPT !.currentTime = el.currentTime, !.progress = progressPercent(el),
                           !.isPlaying = ~el.paused]
        ELSE [ui[c] EXCEPT !.progress = progressFraction(el), !.isPlaying = ~el.paused]

\* handleTimeUpdate of part_000 and handleProgress of Card: both read the
\* element the ref holds now and return when there is none.
handleTimeUpdate(c) ==
    LET which == Current(c)
        el == Element(c, which)
    IN  IF which = "null" THEN ui[c]
        ELSE IF IsPart000
        THEN [ui[c] EXCEPT !.currentTime = el.currentTime, !.progress = progressPercent(el)]
        ELSE [ui[c] EXCEPT !.progress = progressFraction(el)]

\* The position of the click used as it comes.
clampPosNone(raw) == raw

\* Math.max(0, Math.min(1, (e.clientX - rect.left) / rect.width))
clampPos(raw) == MathMax(Int2Num(0), MathMin(Int2Num(1), raw))

(* ------------------------------ the commands --------------------------- *)

\* A togglePlay that also sets isPlaying itself, ahead of the play and pause
\* events.
togglePlayOptimistic(c) ==
    /\ c \in Cards
    /\ mounted[c]
    /\ \E allowed \in BOOLEAN :
        LET which == Current(c)
            el == Element(c, which)
        IN  /\ which = "video" => Len(el.pending) < MaxPending
            /\ IF which = "null"
               THEN UNCHANGED <<video, mobile, logged, uncaught, ui>>
               ELSE IF el.paused /\ ~allowed
               THEN playRejected(c) /\ UNCHANGED <<video, mobile, ui>>
               ELSE /\ SetElement(c, which, IF el.paused THEN play(el) ELSE pause(el))
                    /\ SetUi(c, [ui[c] EXCEPT !.isPlaying = el.paused])
                    /\ UNCHANGED <<logged, uncaught>>
    /\ Did("togglePlay", c, NaN)
    /\ UNCHANGED <<variant, data, mounted, listeners>>

togglePlay(c) ==
    /\ c \in Cards
    /\ mounted[c]
    /\ \E allowed \in BOOLEAN :
        LET which == Current(c)
            el == Element(c, which)
        IN  /\ which = "video" => Len(el.pending) < MaxPending
            /\ IF which = "null"
               THEN UNCHANGED <<video, mobile, logged, uncaught>>
               ELSE IF el.paused /\ ~allowed
               THEN playRejected(c) /\ UNCHANGED <<video, mobile>>
               ELSE /\ SetElement(c, which, IF el.paused THEN play(el) ELSE pause(el))
                    /\ UNCHANGED <<logged, uncaught>>
    /\ Did("togglePlay", c, NaN)
    /\ UNCHANGED <<variant, data, mounted, listeners, ui>>

toggleMute(c) ==
    /\ c \in Cards
    /\ mounted[c]
    /\ LET which == Current(c)
           el == Element(c, which)
           flipped == [el EXCEPT !.muted = ~el.muted]
       IN  IF which = "null"
           THEN UNCHANGED <<video, mobile, ui>> /\ DidToggleMute(c, NoSnapshot)
           ELSE /\ SetElement(c, which, flipped)
                /\ SetUi(c, [ui[c] EXCEPT !.isMuted = flipped.muted])
                /\ DidToggleMute(c, [taken |-> TRUE, muted |-> el.muted,
                                     isMuted |-> ui[c].isMuted])
    /\ UNCHANGED <<variant, data, mounted, listeners, logged, uncaught>>

\* The value a seek to pos hands to the currentTime setter of the card's element.
seekTarget(c, pos) ==
    IF Current(c) = "null" THEN NaN
    ELSE Mul(pos, Element(c, Current(c)).duration)

\* video.currentTime = pos * video.duration: the setter throws a TypeError
\* for a value that is not finite and seeks otherwise.
assignCurrentTime(c, which, pos) ==
    LET el == Element(c, which)
        t == seekTarget(c, pos)
    IN  IF isFinite(t)
        THEN SetElement(c, which, SetCurrentTime(el, t)) /\ UNCHANGED uncaught
        ELSE Throw(c, "TypeError") /\ UNCHANGED <<video, mobile>>

\* The click on the progress bar of part_000, raw = (clientX - left) / width.
handleProgressClick(c, raw) ==
    /\ c \in Cards
    /\ IsPart000
    /\ mounted[c]
    /\ IF Current(c) = "null"
       THEN UNCHANGED <<video, mobile, uncaught>>
       ELSE assignCurrentTime(c, Current(c), clampPos(raw))
    /\ DidSeek(c, raw, seekTarget(c, clampPos(raw)))
    /\ UNCHANGED <<variant, data, mounted, listeners, ui, logged>>

\* The change of Card's range input (min 0, max 1), value its new value.
handleSeek(c, value) ==
    /\ c \in Cards
    /\ variant = "Card"
    /\ mounted[c]
    /\ IF Current(c) = "null"
       THEN UNCHANGED <<video, mobile, uncaught, ui>>
       ELSE /\ assignCurrentTime(c, Current(c), value)
            /\ IF isFinite(seekTarget(c, value))
               THEN SetUi(c, [ui[c] EXCEPT !.progress = value])
               ELSE UNCHANGED ui
    /\ DidSeek(c, value, seekTarget(c, value))
    /\ UNCHANGED <<variant, data, mounted, listeners, logged>>

\* The positions a click on the progress bar may report, some outside the bar.
ClickPositions == {Num(k, FracSteps) : k \in -1 .. FracSteps + 1}

\* The values the range input may report: it keeps its value within min and max.
RangeValues == {Num(k, FracSteps) : k \in 0 .. FracSteps}

(* ------------------------- the events of the video --------------------- *)

\* The browser delivers the oldest queued play or pause event of the video.
dispatchQueued(c) ==
    /\ c \in Cards
    /\ video[c].pending # <<>>
    /\ LET ev == Head(video[c].pending)
       IN  /\ video' = [video EXCEPT ![c].pending = Tail(@)]
           /\ IF ev \in listeners[c]
              THEN SetUi(c, IF ev = "play" THEN handlePlay(ui[c]) ELSE handlePause(ui[c]))
              ELSE UNCHANGED ui
           /\ Did(ev, c, NaN)
    /\ UNCHANGED <<variant, data, mounted, listeners, mobile, logged, uncaught>>

\* The metadata of the reel is read: the duration becomes known.
loadedmetadata(c) ==
    /\ c \in Cards
    /\ isNaN(video[c].duration)
    /\ ~video[c].error
    /\ LET el == [video[c] EXCEPT !.duration = MediaDuration(videos[c].reel)]
       IN  /\ video' = [video EXCEPT ![c] = el]
           /\ IF "loadedmetadata" \in listeners[c]
              THEN SetUi(c, handleLoadedMetadata(ui[c], el))
              ELSE UNCHANGED ui
    /\ Did("loadedmetadata", c, NaN)
    /\ UNCHANGED <<variant, data, mounted, listeners, mobile, logged, uncaught>>

\* onCanPlay={() => setIsLoading(false)} of a rendered video of part_000.
canplay(c) ==
    /\ c \in Cards
    /\ IsPart000
    /\ ~isNaN(video[c].duration)
    /\ ~video[c].error
    /\ IF mounted[c] /\ video[c].attached
       THEN SetUi(c, [ui[c] EXCEPT !.isLoading = FALSE])
       ELSE UNCHANGED ui
    /\ Did("canplay", c, NaN)
    /\ UNCHANGED <<variant, data, mounted, listeners, video, mobile, logged, uncaught>>

\* A media error of the video after its resource was selected (network, decode).
\* With hasError set the card renders the error text in place of the video.
error(c) ==
    /\ c \in Cards
    /\ IsPart000
    /\ ~isNaN(video[c].duration)
    /\ ~video[c].error
    /\ IF "error" \in listeners[c]
       THEN /\ SetUi(c, handleError(ui[c]))
            /\ video' = [video EXCEPT ![c] = Detach([@ EXCEPT !.error = TRUE])]
       ELSE /\ UNCHANGED ui
            /\ video' = [video EXCEPT ![c].error = TRUE]
    /\ Did("error", c, NaN)
    /\ UNCHANGED <<variant, data, mounted, listeners, mobile, logged, uncaught>>

\* The timeupdate event of the video.
timeupdate(c) ==
    /\ c \in Cards
    /\ "timeupdate" \in listeners[c]
    /\ SetUi(c, handleTimeUpdate(c))
    /\ Did("timeupdate", c, NaN)
    /\ UNCHANGED <<variant, data, mounted, listeners, video, mobile, logged, uncaught>>

\* Playback advances by a second; a looping video starts over at its end.
Advance(el) ==
    LET t == Add(el.currentTime, Int2Num(1))
    IN  [el EXCEPT !.currentTime = IF Less(el.duration, t) THEN Int2Num(0) ELSE t]

\* The video of card c that is playing advances (at most one of the two plays:
\* commands reach the mobile video only once the desktop video is detached).
tick(c) ==
    /\ c \in Cards
    /\ \E which \in {"video", "mobile"} :
        LET el == Element(c, which)
        IN  /\ ~el.paused
            /\ ~el.error
            /\ isFinite(el.duration)
            /\ Less(Int2Num(0), el.duration)
            /\ SetElement(c, which, Advance(el))
    /\ Did("tick", c, NaN)
    /\ UNCHANGED <<variant, data, mounted, listeners, ui, logged, uncaught>>

\* The events of the mobile video of MotionReelCardDual: only onCanPlay is heard.
mobileLoadedmetadata(c) ==
    /\ c \in Cards
    /\ variant = "MotionReelCardDual"
    /\ isNaN(mobile[c].duration)
    /\ mobile' = [mobile EXCEPT ![c].duration = MediaDuration(videos[c].reel)]
    /\ Did("mobileLoadedmetadata", c, NaN)
    /\ UNCHANGED <<variant, data, mounted, listeners, ui, video, logged, uncaught>>

mobileCanplay(c) ==
    /\ c \in Cards
    /\ variant = "MotionReelCardDual"
    /\ ~isNaN(mobile[c].duration)
    /\ IF mounted[c] /\ mobile[c].attached
       THEN SetUi(c, [ui[c] EXCEPT !.isLoading = FALSE])
       ELSE UNCHANGED ui
    /\ Did("mobileCanplay", c, NaN)
    /\ UNCHANGED <<variant, data, mounted, listeners, video, mobile, logged, uncaught>>

\* An unmount whose effect has no cleanup: the listeners stay on the video.
unmountNoCleanup(c) ==
    /\ c \in Cards
    /\ mounted[c]
    /\ mounted' = [mounted EXCEPT ![c] = FALSE]
    /\ video' = [video EXCEPT ![c] = IF @.attached THEN Detach(@) ELSE @]
    /\ mobile' = [mobile EXCEPT ![c] = IF @.attached THEN [Detach(@) EXCEPT !.pending = <<>>] ELSE @]
    /\ Did("unmount", c, NaN)
    /\ UNCHANGED <<variant, data, listeners, ui, logged, uncaught>>

\* The card unmounts: the cleanup of the effect removes its listeners, and its
\* videos leave the document.
unmount(c) ==
    /\ c \in Cards
    /\ mounted[c]
    /\ mounted' = [mounted EXCEPT ![c] = FALSE]
    /\ listeners' = [listeners EXCEPT ![c] = {}]
    /\ video' = [video EXCEPT ![c] = IF @.attached THEN Detach(@) ELSE @]
    /\ mobile' = [mobile EXCEPT ![c] = IF @.attached THEN [Detach(@) EXCEPT !.pending = <<>>] ELSE @]
    /\ Did("unmount", c, NaN)
    /\ UNCHANGED <<variant, data, ui, logged, uncaught>>

(* --------------------------- the specifications ------------------------ *)

CardStep(c) ==
    \/ togglePlay(c)
    \/ toggleMute(c)
    \/ \E raw \in ClickPositions : handleProgressClick(c, raw)
    \/ \E value \in RangeValues : handleSeek(c, value)
    \/ dispatchQueued(c)
    \/ loadedmetadata(c)
    \/ canplay(c)
    \/ error(c)
    \/ timeupdate(c)
    \/ tick(c)
    \/ mobileLoadedmetadata(c)
    \/ mobileCanplay(c)
    \/ unmount(c)

\* The section holds nothing to format while its cards run.
NoTimeText == fmtIn = Int2Num(0) /\ fmtOut = ""

\* One card, of any of the three components, on any reel.
Init ==
    /\ \E v \in Variants, r \in Reels : Mounted(v, [kind |-> "array", value |-> <<r>>])
    /\ budget = 0
    /\ NoTimeText
    /\ rendered = RenderSection(variant, data)

\* Any card of the section takes a step.
Next == \E c \in 1 .. MaxReels : CardStep(c)

Spec == Init /\ [][Next]_vars

\* A gallery of MaxReels cards, each on the clip.
GalleryInit ==
    /\ \E v \in Variants :
            Mounted(v, [kind |-> "array",
                        value |-> [c \in 1 .. MaxReels |-> [title |-> "reel", reel |-> "clip.mp4"]]])
    /\ budget = MaxGallerySteps
    /\ NoTimeText
    /\ rendered = RenderSection(variant, data)

GallerySpec == GalleryInit /\ [][Next]_vars

(* ----------------------------- the time text --------------------------- *)

\* The times the time text is rendered for: every half second up to
\* MaxFormatTime half seconds, and NaN.
FormatInputs == {Num(k, 2) : k \in 0 .. MaxFormatTime} \cup {NaN}

\* {formatTime(currentTime)} / {formatTime(duration)}: one call of formatTime.
renderTimeText ==
    /\ fmtOut = ""
    /\ fmtOut' = formatTime(fmtIn)
    /\ UNCHANGED <<fmtIn, cardVars, budget, rendered>>

FormatInit ==
    /\ \E v \in {"MotionReelCardDual", "MotionReelCard"} : Mounted(v, Null)
    /\ budget = 0
    /\ fmtIn \in FormatInputs
    /\ fmtOut = ""
    /\ rendered = RenderSection(variant, data)

FormatNext == renderTimeText

FormatSpec == FormatInit /\ [][FormatNext]_vars

(* ---------------------------- rendering a prop ------------------------- *)

\* The values of the prop `data`: null, one reel, or a list of up to MaxItems
\* reels (the empty list and lists that repeat a reel among them).
RECURSIVE ListsOf(_)
ListsOf(n) ==
    IF n = 0 THEN {<<>>}
    ELSE ListsOf(n - 1)
            \cup {Append(l, r) : l \in {m \in ListsOf(n - 1) : Len(m) = n - 1}, r \in Reels}

\* Two reels of one title, the second with an id that ends in a digit.
KeyedReels ==
    {[title |-> "reel", reel |-> "clip.mp4"],
     [id |-> "reel1", title |-> "reel", reel |-> "clip.mp4"]}

\* The lists of up to n of them.
RECURSIVE KeyedListsOf(_)
KeyedListsOf(n) ==
    IF n = 0 THEN {<<>>}
    ELSE LET shorter == KeyedListsOf(n - 1)
         IN  shorter \cup {Append(l, r) : l \in {m \in shorter : Len(m) = n - 1},
                                           r \in KeyedReels}

DataInputs ==
    {Null} \cup {[kind |-> "object", value |-> r] : r \in Reels}
           \cup {[kind |-> "array", value |-> l] : l \in ListsOf(MaxItems)}
           \cup {[kind |-> "array", value |-> l] : l \in KeyedListsOf(MaxKeyItems)}

\* MotionReelSection runs for its prop and returns its elements.
renderSection ==
    /\ rendered = NotRendered
    /\ rendered' = RenderSection(variant, data)
    /\ UNCHANGED <<cardVars, budget, fmtVars>>

RenderInit ==
    /\ \E v \in Variants, d \in DataInputs : Mounted(v, d)
    /\ budget = 0
    /\ NoTimeText
    /\ rendered = NotRendered

RenderNext == renderSection

RenderSpec == RenderInit /\ [][RenderNext]_vars

(* ------------------------------- the claims ---------------------------- *)

Commands == {"togglePlay", "toggleMute", "seek"}

\* The transport values of two snapshots of an element agree.
SameTransport(a, b) ==
    a.paused = b.paused /\ a.muted = b.muted /\ a.currentTime = b.currentTime

\* C1: once the error flag of a card is set, a togglePlay, toggleMute or seek
\* of that card changes no media element's paused, muted or currentTime and
\* leaves the card's UI state as it was.
C1_CommandsInertAfterError ==
    [][\A c \in Cards :
        (ui[c].hasError /\ last'.card = c /\ last'.op \in Commands)
            => /\ \A k \in Cards : /\ SameTransport(video'[k], video[k])
                                   /\ SameTransport(mobile'[k], mobile[k])
               /\ ui'[c] = ui[c]]_vars

\* C2: once the error flag of a card is set it stays set, and no play, pause,
\* timeupdate, loadedmetadata or canplay event of the element that raised the
\* error changes the card's loading flag or its playing state.
C2_ErroredIsTerminal ==
    [][\A c \in Cards :
        ui[c].hasError
            => /\ ui'[c].hasError
               /\ (last'.card = c /\ last'.op \in {"play", "pause", "timeupdate",
                                                    "loadedmetadata", "canplay"})
                    => /\ ui'[c].isLoading = ui[c].isLoading
                       /\ ui'[c].isPlaying = ui[c].isPlaying]_vars

\* C3: a step of one card (a command, an event, an error) leaves every other
\* card as it was: its UI state, its elements, its listeners, and whether it is
\* mounted.
C3_CardsIsolated ==
    [][\A c \in Cards :
        last'.card # c
            => /\ ui'[c] = ui[c]
               /\ video'[c] = video[c]
               /\ mobile'[c] = mobile[c]
               /\ mounted'[c] = mounted[c]
               /\ listeners'[c] = listeners[c]
               /\ logged'[c] = logged[c]
               /\ uncaught'[c] = uncaught[c]]_vars

\* The first card has just raised an error while the second, its metadata
\* read, is mounted with its video and without an error.
C3_Witness ==
    /\ Len(videos) >= 2
    /\ last.op = "error" /\ last.card = 1
    /\ ui[1].hasError
    /\ mounted[2] /\ ~ui[2].hasError
    /\ Current(2) = "video" /\ ~isNaN(video[2].duration)

\* C4: togglePlay leaves isPlaying as it is; isPlaying turns true only in the
\* step that delivers the play event of the card, and false only in the step
\* that delivers its pause event.
C4_PlayingFollowsEvents ==
    [][\A c \in Cards :
        /\ (last'.op = "togglePlay") => ui'[c].isPlaying = ui[c].isPlaying
        /\ (~ui[c].isPlaying /\ ui'[c].isPlaying)
              => (last'.op = "play" /\ last'.card = c)
        /\ (ui[c].isPlaying /\ ~ui'[c].isPlaying)
              => (last'.op = "pause" /\ last'.card = c)]_vars

\* togglePlay has just started a video that was paused and ready: the element
\* plays, its play event is still queued, and isPlaying is still false.
C4_Witness ==
    \E c \in Cards :
        /\ last.op = "togglePlay" /\ last.card = c
        /\ IsPart000 /\ ~ui[c].isLoading
        /\ ~video[c].paused /\ video[c].pending = <<"play">>
        /\ ~ui[c].isPlaying

\* C5: a step in which togglePlay's play request is rejected (the element was
\* paused and stays paused) lets no error escape, logs the rejection and
\* leaves the card's state as it was.
C5_PlayRejectionCaught ==
    [][\A c \in Cards :
        (/\ last'.op = "togglePlay" /\ last'.card = c
         /\ Current(c) # "null"
         /\ Element(c, Current(c)).paused
         /\ (IF Current(c) = "mobile" THEN mobile'[c] ELSE video'[c]).paused)
            => /\ uncaught'[c] = uncaught[c]
               /\ logged'[c]
               /\ ui'[c] = ui[c]]_vars

\* f clamped to [0, 1].
Clamp01(f) ==
    IF Less(f, Int2Num(0)) THEN Int2Num(0)
    ELSE IF Less(Int2Num(1), f) THEN Int2Num(1)
    ELSE f

\* C6: a seek to fraction f on an element of known duration D hands f * D to
\* the currentTime setter, f first clamped to [0, 1]; the value lies in [0, D]
\* and is the element's currentTime after the step.
C6_SeekAssignsFraction ==
    [][\A c \in Cards :
        (/\ last'.op = "seek" /\ last'.card = c
         /\ Current(c) # "null"
         /\ isFinite(Element(c, Current(c)).duration))
            => LET D == Element(c, Current(c)).duration
                   after == IF Current(c) = "mobile" THEN mobile'[c] ELSE video'[c]
               IN  /\ last'.assigned = Mul(Clamp01(last'.arg), D)
                   /\ LessEq(Int2Num(0), last'.assigned)
                   /\ LessEq(last'.assigned, D)
                   /\ after.currentTime = last'.assigned]_vars

\* A click right of the progress bar has just sought the end of the clip.
C6_Witness ==
    \E c \in Cards :
        /\ last.op = "seek" /\ last.card = c
        /\ last.arg = Num(FracSteps + 1, FracSteps)
        /\ video[c].duration = Int2Num(MaxDuration)
        /\ last.assigned = Int2Num(MaxDuration)
        /\ video[c].currentTime = Int2Num(MaxDuration)

\* C7: a seek on an element whose duration is unknown (NaN or 0) hands nothing
\* to the currentTime setter, lets no error escape and leaves the element's
\* currentTime and the card's progress and currentTime state as they were.
C7_SeekUnknownDurationNoOp ==
    [][\A c \in Cards :
        (/\ last'.op = "seek" /\ last'.card = c
         /\ Current(c) # "null"
         /\ Element(c, Current(c)).duration \in {NaN, Int2Num(0)})
            => LET before == Element(c, Current(c))
                   after == IF Current(c) = "mobile" THEN mobile'[c] ELSE video'[c]
               IN  /\ isNaN(last'.assigned)
                   /\ uncaught'[c] = uncaught[c]
                   /\ after.currentTime = before.currentTime
                   /\ ui'[c].progress = ui[c].progress
                   /\ ui'[c].currentTime = ui[c].currentTime]_vars

\* C8: the stored progress of every card is a finite number in [0, 1], in
\* [0, 100] where the component stores a percentage.
C8_ProgressInRange ==
    \A c \in Cards :
        /\ isFinite(ui[c].progress)
        /\ LessEq(Int2Num(0), ui[c].progress)
        /\ LessEq(ui[c].progress, IF IsPart000 THEN Int2Num(100) ELSE Int2Num(1))

\* A timeupdate has just been handled on a video whose duration is still NaN.
C8_Witness ==
    \E c \in Cards :
        /\ last.op = "timeupdate" /\ last.card = c
        /\ Current(c) # "null"
        /\ isNaN(Element(c, Current(c)).duration)

\* n < 100 written with exactly two digits.
TwoDigits(n) == Digit[(n \div 10) + 1] \o Digit[(n % 10) + 1]

\* The whole seconds of a finite time t >= 0.
WholeSeconds(t) == t[1] \div t[2]

\* C9: for a finite time t >= 0 the rendered text is floor(t / 60) without
\* padding, a colon, and floor(t mod 60) as exactly two digits.
C9_FormatTimeShape ==
    (fmtOut # "" /\ isFinite(fmtIn))
        => fmtOut = NatToString(WholeSeconds(fmtIn) \div 60) \o ":"
                        \o TwoDigits(WholeSeconds(fmtIn) % 60)

\* formatTime(65) has been rendered as "1:05".
C9_Witness == fmtIn = Int2Num(65) /\ fmtOut = "1:05"

\* sub occurs in s.
Contains(s, sub) ==
    \E i \in 1 .. (Len(s) - Len(sub) + 1) : SubSeq(s, i, i + Len(sub) - 1) = sub

\* C10: the text rendered for a time that is NaN is a placeholder that does not
\* contain "NaN".
C10_FormatTimeNaNPlaceholder ==
    (fmtOut # "" /\ isNaN(fmtIn)) => ~Contains(fmtOut, "NaN")

\* C11: chunkByPattern partitions any list greedily by the repeating pattern
\* [3, 2]: no row is empty, row i (from 0) holds at most Pattern[i mod 2]
\* items and exactly that many unless it is the last row, the rows joined in
\* order are the list itself, the empty list gives zero rows, five items give
\* rows of 3 and 2, seven items rows of 3, 2 and 2.
C11_ChunkByPattern ==
    (variant = "Card" /\ rendered.kind = "section") =>
        LET rows == rendered.rows
            size(i) == Pattern[((i - 1) % Len(Pattern)) + 1]
        IN  /\ \A i \in 1 .. Len(rows) :
                    /\ Len(rows[i]) >= 1
                    /\ Len(rows[i]) <= size(i)
                    /\ i < Len(rows) => Len(rows[i]) = size(i)
            /\ Flatten(rows) = videos
            /\ Len(videos) = 0 => rows = <<>>
            /\ Len(videos) = 5 => [i \in 1 .. Len(rows) |-> Len(rows[i])] = <<3, 2>>
            /\ Len(videos) = 7 => [i \in 1 .. Len(rows) |-> Len(rows[i])] = <<3, 2, 2>>

\* Seven reels, two of them different, were chunked into three rows.
C11_Witness ==
    /\ variant = "Card"
    /\ rendered.kind = "section"
    /\ Len(videos) = 7
    /\ Len(rendered.rows) = 3
    /\ videos[1] # videos[7]

\* C12: the normalization is total and keeps the count: null gives the empty
\* list, a single reel the list of that reel, a list of N reels the same N
\* reels in the same order with repeated reels kept; the components of
\* part_000 render exactly one card, with its own controller, per reel of the
\* normalized list, in its order. (The cards of Card are the rows of
\* chunkByPattern(videos): C11.)
C12_NormalizeKeepsCount ==
    rendered.kind # "none" =>
        /\ data.kind = "null" => videos = <<>>
        /\ data.kind = "object" => videos = <<data.value>>
        /\ data.kind = "array" => videos = data.value
        /\ IsPart000 => rendered.cards = videos /\ DOMAIN ui = 1 .. Len(rendered.cards)

\* A list of three reels that repeats a reel was rendered as three cards.
C12_Witness ==
    /\ rendered.kind = "section"
    /\ data.kind = "array"
    /\ Len(data.value) = 3
    /\ data.value[1] = data.value[2]
    /\ data.value[2] # data.value[3]
    /\ IsPart000
    /\ Len(rendered.cards) = 3

\* C13: whenever the normalized list is empty (the prop is null or the empty
\* list), the section renders the empty-state message and not the section
\* with its heading and rows.
C13_EmptyListShowsMessage ==
    (rendered.kind # "none" /\ Len(videos) = 0) => rendered.kind = "message"

\* C14: two consecutive toggleMute commands of a card with a live element
\* restore the muted flag of the element and the card's isMuted to the values
\* they had before the first of the two.
C14_ToggleMuteTwiceRestores ==
    [][\A c \in Cards :
        (/\ last.op = "toggleMute" /\ last.card = c /\ last.before.taken
         /\ last'.op = "toggleMute" /\ last'.card = c /\ last'.before.taken)
            => /\ Element(c, Current(c))'.muted = last.before.muted
               /\ ui'[c].isMuted = last.before.isMuted]_vars

\* C15: in every reachable state, from the mount on and after any toggleMute
\* and any event, the card's isMuted equals the muted flag of the element the
\* card controls.
C15_IsMutedMirrorsElement ==
    \A c \in Cards :
        (mounted[c] /\ Current(c) # "null")
            => ui[c].isMuted = Element(c, Current(c)).muted

\* C16: unmounting a card, in any status and in Loading too, detaches every
\* listener the card registered: an unmounted card listens to no event, and no
\* step taken after the unmount (no media event delivered then) changes the
\* state of the destroyed card.
C16_UnmountDetachesListeners ==
    [][\A c \in Cards :
        ~mounted'[c] => /\ listeners'[c] = {}
                        /\ ~mounted[c] => ui'[c] = ui[c]]_vars

\* A card was unmounted while loading, before its metadata arrived; the
\* loadedmetadata event came afterwards and the card's state stayed as it was.
C16_Witness ==
    \E c \in Cards :
        /\ ~mounted[c]
        /\ last.op = "loadedmetadata"
        /\ last.card = c
        /\ ~isNaN(video[c].duration)
        /\ ui[c].isLoading
        /\ ui[c].duration = Int2Num(0)

\* The status of a card (isPlaying and the loading and error flags) with its
\* duration and currentTime state.
StatusFields(u) == <<u.isPlaying, u.isLoading, u.hasError, u.duration, u.currentTime>>

\* The steps that deliver a media event to a card.
MediaEvents ==
    {"loadedmetadata", "canplay", "mobileCanplay", "error", "timeupdate", "play", "pause"}

\* C17: togglePlay and toggleMute leave the status, the duration and the
\* currentTime state of every card unchanged; those fields of a card change
\* only in a step that delivers a loadedmetadata, canplay, error, timeupdate,
\* play or pause event to that card.
C17_CommandsLeaveStatus ==
    [][\A c \in Cards :
        /\ last'.op \in {"togglePlay", "toggleMute"}
                => StatusFields(ui'[c]) = StatusFields(ui[c])
        /\ StatusFields(ui'[c]) # StatusFields(ui[c])
                => last'.card = c /\ last'.op \in MediaEvents]_vars

\* A togglePlay started the video of a card and the card does not show it as
\* playing yet: the play event is still queued.
C17_Witness ==
    \E c \in Cards :
        /\ mounted[c]
        /\ last.op = "togglePlay"
        /\ last.card = c
        /\ ~video[c].paused
        /\ video[c].pending # <<>>
        /\ ~ui[c].isPlaying

\* The status of a card as its flags give it: the error text replaces the
\* video, the spinner covers it while loading.
Status(u) ==
    IF u.hasError THEN "Errored"
    ELSE IF u.isLoading THEN "Loading"
    ELSE IF u.isPlaying THEN "Playing"
    ELSE "Ready"

\* C18 as stated: a card starts in Loading and leaves Loading when its element
\* delivers either a canplay or a loadedmetadata event; it never leaves
\* Loading without one of these events or an error.
C18_LoadingEndsOnCanplayOrMetadata ==
    [][\A c \in Cards :
        (IsPart000 /\ mounted[c]) =>
            /\ last.op = "mount" => Status(ui[c]) = "Loading"
            /\ (/\ Status(ui[c]) = "Loading"
                /\ last'.card = c
                /\ last'.op \in {"canplay", "mobileCanplay", "loadedmetadata"})
                    => Status(ui'[c]) # "Loading"
            /\ (Status(ui[c]) = "Loading" /\ Status(ui'[c]) # "Loading")
                    => /\ last'.card = c
                       /\ last'.op \in {"canplay", "mobileCanplay", "loadedmetadata", "error"}]_vars

\* C18, amended: a card of part_000 starts in Loading; a canplay event of one
\* of its videos takes it out of Loading (to Ready, or to Playing when a play
\* event came first), a loadedmetadata event leaves it in Loading, and it
\* leaves Loading in no other way than by a canplay or by an error, which
\* takes it to Errored.
C18_LoadingEndsOnCanplay ==
    [][\A c \in Cards :
        (IsPart000 /\ mounted[c]) =>
            /\ last.op = "mount" => Status(ui[c]) = "Loading"
            /\ (/\ Status(ui[c]) = "Loading"
                /\ last'.card = c
                /\ last'.op \in {"canplay", "mobileCanplay"})
                    => Status(ui'[c]) \in {"Ready", "Playing"}
            /\ (/\ Status(ui[c]) = "Loading"
                /\ last'.card = c
                /\ last'.op = "loadedmetadata")
                    => Status(ui'[c]) = "Loading"
            /\ (Status(ui[c]) = "Loading" /\ Status(ui'[c]) # "Loading")
                    => /\ last'.card = c
                       /\ \/ last'.op \in {"canplay", "mobileCanplay"}
                          \/ last'.op = "error" /\ Status(ui'[c]) = "Errored"]_vars

\* The canplay event of a card's video was delivered and the card, which knew
\* its duration and was still loading, is now ready.
C18_Witness ==
    \E c \in Cards :
        /\ IsPart000
        /\ mounted[c]
        /\ last.op = "canplay"
        /\ last.card = c
        /\ ui[c].duration = Int2Num(MaxDuration)
        /\ Status(ui[c]) = "Ready"

\* C19: the playing state is a projection of the element the card's commands
\* act on: once every queued play and pause event has been delivered and
\* handled, isPlaying equals the negation of that element's paused flag, in
\* every interleaving of togglePlay, play and pause events and error events,
\* in the component with a desktop and a mobile video too.
C19_PlayingIsProjection ==
    \A c \in Cards :
        (/\ mounted[c]
         /\ Current(c) # "null"
         /\ video[c].pending = <<>>
         /\ mobile[c].pending = <<>>)
            => ui[c].isPlaying = ~Element(c, Current(c)).paused

\* C20: a seek on an element of known duration sets the card's displayed
\* progress to the sought fraction (a percentage in part_000) in the step that
\* assigns currentTime, before any later timeupdate.
C20_SeekUpdatesProgress ==
    [][\A c \in Cards :
        (/\ last'.op = "seek" /\ last'.card = c
         /\ Current(c) # "null"
         /\ isFinite(Element(c, Current(c)).duration)
         /\ Less(Int2Num(0), Element(c, Current(c)).duration))
            => ui'[c].progress =
                    IF IsPart000 THEN Mul(Clamp01(last'.arg), Int2Num(100))
                    ELSE Clamp01(last'.arg)]_vars

\* C21: within one render pass the keys of the rendered cards (the id, or the
\* title when the id is absent, joined with the positional index) are pairwise
\* distinct, for every list, lists with equal titles and with ids that end in
\* a digit among them.
C21_KeysDistinct ==
    rendered.kind = "section" =>
        \A i, j \in 1 .. Len(rendered.keys) :
            i # j => rendered.keys[i] # rendered.keys[j]

\* C22: the status of a card is a single value: in no reachable state is a
\* card both Loading and Errored (its loading flag and its error flag are
\* never both true), also when the error event arrives before any canplay.
C22_NotLoadingAndErrored ==
    \A c \in Cards : ~(ui[c].isLoading /\ ui[c].hasError)
====
